---- MODULE Spec2Model ----
(***************************************************************************)
(* Voice-Cleaner: the analysis engine (src/pipeline/analysis.py), the      *)
(* engine wrapper (src/pipeline/ffmpeg.py), the filter-chain builder       *)
(* (src/pipeline/filters.py), the processing step                          *)
(* (src/pipeline/process.py) and the batch loop of src/main.py.            *)
(*                                                                         *)
(* Units.  Timestamps and durations are integers counted in half seconds   *)
(* (Sec(1) = 2), levels are integers counted in half decibels (dB(1) = 2), *)
(* so that (mean + max) / 2 of whole-dB readings is exact.  A ratio is the *)
(* exact fraction [num, den] with den > 0.  Python's None is <<>> and a    *)
(* present value v is <<v>>.                                               *)
(***************************************************************************)
EXTENDS Integers, Sequences, FiniteSets, TLC

VARIABLES
    pc,                \* position of the modelled run
    stderr,            \* _parse_silencedetect_output: the lines of the log
    line_no,           \* _parse_silencedetect_output: the line the loop is at
    current_start,     \* _parse_silencedetect_output: the pending start
    segments,          \* _parse_silencedetect_output: the list being built
    ffmpeg_installed,  \* whether the engine binary can be started at all
    probe_info,        \* analyze_audio: the probe metadata it was given
    silence_segments,  \* analyze_audio: the result of _detect_silence
    silence_ratio,     \* analyze_audio: the result of _calculate_silence_ratio
    noise_level_db,    \* analyze_audio: the result of _estimate_noise_level
    speech_level_db,   \* analyze_audio: the result of _estimate_speech_level
    has_music,         \* analyze_audio: the result of _detect_music
    volumedetect,      \* the statistics log of the last volumedetect run
    calls,             \* the engine invocations made so far, in order
    raised,            \* the exception that left analyze_audio, or "none"
    analysis,          \* build_audio_filter: its analysis argument
    preset,            \* build_audio_filter: its preset argument
    filter_chain,      \* build_audio_filter: the chain it returned
    video_files,       \* main: the files found in the input directory
    file_no,           \* main: the place of the batch loop in video_files
    processed_count,   \* main: the files processed so far
    failed_count,      \* main: the files that failed so far
    outcomes,          \* what each file handled so far ended with, in order
    exit_status,       \* main: the status of sys.exit, or None while running
    start_line,        \* the line current_start was read from, 0 when none
    sources,           \* for each segment, the <<start line, end line>> it is made of
    media,             \* two files side by side: what the engine answers for each
    runs,              \* two files side by side: the locals of each file's pipeline
    input_exists,      \* process_video: whether the input file exists
    output_file,       \* process_video: the file at the output path, or None
    unlink_raised      \* process_video: whether output_file.unlink() raised

vars == <<pc, stderr, line_no, current_start, segments, ffmpeg_installed,
          probe_info, silence_segments, silence_ratio, noise_level_db,
          speech_level_db, has_music, volumedetect, calls, raised,
          analysis, preset, filter_chain, video_files, file_no,
          processed_count, failed_count, outcomes, exit_status, start_line,
          sources, media, runs, input_exists, output_file, unlink_raised>>

parserVars == <<stderr, line_no, current_start, segments, start_line, sources>>
analysisVars == <<ffmpeg_installed, probe_info, silence_segments, silence_ratio,
                  noise_level_db, speech_level_db, has_music, volumedetect,
                  calls, raised>>
filterVars == <<analysis, preset, filter_chain>>
batchVars == <<video_files, file_no, processed_count, failed_count, outcomes,
               exit_status>>
twoFileVars == <<media, runs>>
processVars == <<input_exists, output_file, unlink_raised>>

----------------------------------------------------------------------------
(* Bounds and value sets.                                                  *)

\* The longest detector log, in lines.
MaxLines == 3

\* The longest silence-segment list handed to the estimators directly.
MaxSegments == 4

\* The largest base noise-reduction amount of a preset, in whole units.
MaxNr == 30

\* The longest list of equalizer entries of a preset.
MaxEntries == 3

\* The largest number of video files in the input directory.
MaxFiles == 3

\* The largest size of a file at the output path, in blocks.
MaxSize == 4

Sec(x) == 2 * x
dB(x) == 2 * x

None == <<>>
Some(v) == <<v>>

\* Timestamps a detector line can carry: 1.0 s, 3.5 s and 10.0 s.
Timestamps == {2, 7, 20}

\* What the character class [\d.]+ can match: a decimal literal (valid, with
\* its value) or a run such as "1.2.3" or "." that float() rejects.
NumberTexts == [valid : {TRUE}, value : Timestamps] \cup {[valid |-> FALSE, value |-> 0]}

\* One line of the detector log: a silence_start line, a silence_end line
\* (each with the text its pattern captures) or any other line.
DetectorLines ==
    [kind : {"silence_start", "silence_end"}, text : NumberTexts]
        \cup {[kind |-> "other", text |-> [valid |-> FALSE, value |-> 0]]}

SeqsUpTo(S, n) == UNION {[1..k -> S] : k \in 0..n}

DetectorLogs == SeqsUpTo(DetectorLines, MaxLines)

----------------------------------------------------------------------------
(* _parse_silencedetect_output, one loop iteration at a time.              *)

\* float(match.group(1)): the value, or ValueError.
FloatRaises(text) == ~text.valid
FloatValue(text) == text.value

\* ParseLine with one slip: a start event met while a start is already pending
\* is ignored, so the first unmatched start survives instead of the last.
ParseLine_KeepFirstStart(line, cur, segs) ==
    IF line.kind = "silence_start"
    THEN IF FloatRaises(line.text)
         THEN [raised |-> TRUE, current_start |-> cur, segments |-> segs]
         ELSE [raised |-> FALSE,
               current_start |-> IF cur = None THEN Some(FloatValue(line.text)) ELSE cur,
               segments |-> segs]
    ELSE IF line.kind = "silence_end" /\ cur # None
    THEN IF FloatRaises(line.text)
         THEN [raised |-> TRUE, current_start |-> cur, segments |-> segs]
         ELSE [raised |-> FALSE, current_start |-> None,
               segments |-> Append(segs, <<cur[1], FloatValue(line.text)>>)]
    ELSE [raised |-> FALSE, current_start |-> cur, segments |-> segs]

\* ParseLine with one slip: current_start is not reset after a segment is
\* appended, so the same start pairs with every later end event.
ParseLine_KeepPending(line, cur, segs) ==
    IF line.kind = "silence_start"
    THEN IF FloatRaises(line.text)
         THEN [raised |-> TRUE, current_start |-> cur, segments |-> segs]
         ELSE [raised |-> FALSE, current_start |-> Some(FloatValue(line.text)),
               segments |-> segs]
    ELSE IF line.kind = "silence_end" /\ cur # None
    THEN IF FloatRaises(line.text)
         THEN [raised |-> TRUE, current_start |-> cur, segments |-> segs]
         ELSE [raised |-> FALSE, current_start |-> cur,
               segments |-> Append(segs, <<cur[1], FloatValue(line.text)>>)]
    ELSE [raised |-> FALSE, current_start |-> cur, segments |-> segs]

\* The body of the for loop on one line: the new (current_start, segments),
\* or raised when float() rejects the captured text.
ParseLine(line, cur, segs) ==
    IF line.kind = "silence_start"
    THEN IF FloatRaises(line.text)
         THEN [raised |-> TRUE, current_start |-> cur, segments |-> segs]
         ELSE [raised |-> FALSE, current_start |-> Some(FloatValue(line.text)),
               segments |-> segs]
    ELSE IF line.kind = "silence_end" /\ cur # None
    THEN IF FloatRaises(line.text)
         THEN [raised |-> TRUE, current_start |-> cur, segments |-> segs]
         ELSE [raised |-> FALSE, current_start |-> None,
               segments |-> Append(segs, <<cur[1], FloatValue(line.text)>>)]
    ELSE [raised |-> FALSE, current_start |-> cur, segments |-> segs]

RECURSIVE ParseFrom(_, _, _, _)
ParseFrom(lines, i, cur, segs) ==
    IF i > Len(lines)
    THEN [raised |-> FALSE, segments |-> segs]
    ELSE LET r == ParseLine(lines[i], cur, segs)
         IN  IF r.raised
             THEN [raised |-> TRUE, segments |-> <<>>]
             ELSE ParseFrom(lines, i + 1, r.current_start, r.segments)

\* The whole function: the segment list, or raised (ValueError).
parse_silencedetect_output(lines) == ParseFrom(lines, 1, None, <<>>)

Idle == /\ ffmpeg_installed = TRUE
        /\ probe_info = [audio |-> None, format |-> None]
        /\ silence_segments = <<>>
        /\ silence_ratio = [num |-> 0, den |-> 1]
        /\ noise_level_db = 0
        /\ speech_level_db = 0
        /\ has_music = FALSE
        /\ volumedetect = None
        /\ calls = <<>>
        /\ raised = "none"

NoFilter == /\ analysis = None
            /\ preset = None
            /\ filter_chain = <<>>

NoParse == /\ stderr = <<>>
           /\ line_no = 0
           /\ current_start = None
           /\ segments = <<>>
           /\ start_line = 0
           /\ sources = <<>>

NoBatch == /\ video_files = <<>>
           /\ file_no = 0
           /\ processed_count = 0
           /\ failed_count = 0
           /\ outcomes = <<>>
           /\ exit_status = None

NoTwoFiles == /\ media = <<>>
              /\ runs = <<>>

NoProcess == /\ input_exists = FALSE
             /\ output_file = None
             /\ unlink_raised = FALSE

InitParse ==
    /\ pc = "parsing"
    /\ stderr \in DetectorLogs
    /\ line_no = 1
    /\ current_start = None
    /\ segments = <<>>
    /\ start_line = 0
    /\ sources = <<>>
    /\ Idle
    /\ NoFilter
    /\ NoBatch
    /\ NoTwoFiles
    /\ NoProcess

\* One iteration of the loop over stderr.split('\n').
ParseStep ==
    /\ pc = "parsing"
    /\ line_no <= Len(stderr)
    /\ LET r == ParseLine(stderr[line_no], current_start, segments)
       IN  IF r.raised
           THEN /\ pc' = "parse_raised"
                /\ UNCHANGED <<line_no, current_start, segments, start_line, sources>>
           ELSE /\ pc' = "parsing"
                /\ line_no' = line_no + 1
                /\ current_start' = r.current_start
                /\ segments' = r.segments
                /\ start_line' = IF stderr[line_no].kind = "silence_start" THEN line_no
                                 ELSE IF r.current_start = None THEN 0
                                 ELSE start_line
                /\ sources' = IF Len(r.segments) > Len(segments)
                              THEN Append(sources, <<start_line, line_no>>)
                              ELSE sources
    /\ UNCHANGED <<stderr, analysisVars, filterVars, batchVars, twoFileVars, processVars>>

\* The loop is over: return segments.
ParseReturn ==
    /\ pc = "parsing"
    /\ line_no > Len(stderr)
    /\ pc' = "parsed"
    /\ UNCHANGED <<parserVars, analysisVars, filterVars, batchVars, twoFileVars, processVars>>

NextParse == ParseStep \/ ParseReturn

SpecParse == InitParse /\ [][NextParse]_vars

----------------------------------------------------------------------------
(* run_ffmpeg and the analysis engine.                                     *)

\* Durations the probe reports: float(...) or None is None or a non-zero
\* number; here 5 s and 60 s.
ProbeDurations == {None, Some(Sec(5)), Some(Sec(60))}

ProbeInfos == [audio : ProbeDurations, format : ProbeDurations]

\* Whole-dB readings volumedetect prints: -40, -20, -3 and (off scale) +40.
Levels == {dB(-40), dB(-20), dB(-3), dB(40)}

\* What a volumedetect pattern finds in the log: nothing, a number, or text
\* of the class [-\d.]+ that float() rejects (such as "-" or "1-2").
Readings ==
    {[match |-> FALSE, valid |-> FALSE, value |-> 0],
     [match |-> TRUE, valid |-> FALSE, value |-> 0]}
        \cup [match : {TRUE}, valid : {TRUE}, value : Levels]

StatsLogs == [mean_volume : Readings, max_volume : Readings]

\* How one start of the engine process ends: exit code 0, a non-zero exit
\* code, FileNotFoundError (no binary), or another exception of subprocess.run.
EngineOutcomes(installed) ==
    IF installed THEN {"ok", "nonzero", "oserror"} ELSE {"missing"}

\* run_ffmpeg: the captured stderr, or FFmpegError for every failure.
run_ffmpeg(outcome, log) ==
    IF outcome = "ok"
    THEN [raises |-> "none", stderr |-> log]
    ELSE [raises |-> "FFmpegError", stderr |-> <<>>]

\* _detect_silence with one slip: the except clause is missing, so an engine
\* failure leaves the function.
detect_silence_NoExcept(outcome, log) ==
    LET r == run_ffmpeg(outcome, log)
    IN  IF r.raises = "FFmpegError"
        THEN [raises |-> "FFmpegError", segments |-> <<>>]
        ELSE LET p == parse_silencedetect_output(r.stderr)
             IN  IF p.raised
                 THEN [raises |-> "ValueError", segments |-> <<>>]
                 ELSE [raises |-> "none", segments |-> p.segments]

\* _detect_silence: FFmpegError is caught and gives the empty list; the
\* ValueError of float() in the parser is not caught.
detect_silence(outcome, log) ==
    LET r == run_ffmpeg(outcome, log)
    IN  IF r.raises = "FFmpegError"
        THEN [raises |-> "none", segments |-> <<>>]
        ELSE LET p == parse_silencedetect_output(r.stderr)
             IN  IF p.raised
                 THEN [raises |-> "ValueError", segments |-> <<>>]
                 ELSE [raises |-> "none", segments |-> p.segments]

\* Python's "a or b" on an optional number: b when a is None or 0.
PyOr(a, b) == IF a # None /\ a[1] # 0 THEN a ELSE b

\* analyze_audio line 47: the audio-stream duration or the container's.
Duration(info) == PyOr(info.audio, info.format)

RECURSIVE SumDurations(_)
SumDurations(segs) ==
    IF segs = <<>> THEN 0
    ELSE (Head(segs)[2] - Head(segs)[1]) + SumDurations(Tail(segs))

\* n / d as a fraction with a positive denominator.
Frac(n, d) == IF d < 0 THEN [num |-> -n, den |-> -d] ELSE [num |-> n, den |-> d]
FracLess(a, b) == a.num * b.den < b.num * a.den
FracEq(a, b) == a.num * b.den = b.num * a.den
FracLe(a, b) == FracLess(a, b) \/ FracEq(a, b)
Zero == [num |-> 0, den |-> 1]
One == [num |-> 1, den |-> 1]
FracMin(a, b) == IF FracLess(b, a) THEN b ELSE a

\* _calculate_silence_ratio with one slip: the result is not capped at 1.
calculate_silence_ratio_NoCap(segs, duration) ==
    IF segs = <<>> \/ duration = None \/ duration[1] = 0
    THEN Zero
    ELSE Frac(SumDurations(segs), duration[1])

\* _calculate_silence_ratio.
calculate_silence_ratio(segs, duration) ==
    IF segs = <<>> \/ duration = None \/ duration[1] = 0
    THEN Zero
    ELSE FracMin(Frac(SumDurations(segs), duration[1]), One)

Max(a, b) == IF a > b THEN a ELSE b
Min(a, b) == IF a < b THEN a ELSE b

Prefix(s, n) == SubSeq(s, 1, Min(n, Len(s)))

\* _estimate_noise_level with one slip: the floor of -60 dB is not applied.
estimate_noise_level_NoFloor(segs, outcome, log) ==
    IF segs = <<>>
    THEN LET r == run_ffmpeg(outcome, log)
         IN  IF /\ r.raises = "none"
                /\ r.stderr.mean_volume.match
                /\ r.stderr.mean_volume.valid
             THEN [value |-> r.stderr.mean_volume.value - dB(30), invoked |-> TRUE]
             ELSE [value |-> dB(-45), invoked |-> TRUE]
    ELSE [value |-> dB(-45), invoked |-> FALSE]

\* _estimate_noise_level with another slip: the statistics filter is run
\* whether or not there are segments.
estimate_noise_level_AlwaysStats(segs, outcome, log) ==
    LET r == run_ffmpeg(outcome, log)
    IN  IF /\ r.raises = "none"
           /\ r.stderr.mean_volume.match
           /\ r.stderr.mean_volume.valid
        THEN [value |-> Max(r.stderr.mean_volume.value - dB(30), dB(-60)),
              invoked |-> TRUE]
        ELSE [value |-> dB(-45), invoked |-> TRUE]

\* _estimate_noise_level: its value and whether it started the engine.  Every
\* exception inside the try (FFmpegError, the ValueError of float()) is caught.
estimate_noise_level(segs, outcome, log) ==
    IF segs = <<>>
    THEN LET r == run_ffmpeg(outcome, log)
         IN  IF /\ r.raises = "none"
                /\ r.stderr.mean_volume.match
                /\ r.stderr.mean_volume.valid
             THEN [value |-> Max(r.stderr.mean_volume.value - dB(30), dB(-60)),
                   invoked |-> TRUE]
             ELSE [value |-> dB(-45), invoked |-> TRUE]
    ELSE LET first3 == Prefix(segs, 3)
             sample_segments ==
                 IF SumDurations(first3) < Sec(1)
                 THEN Prefix(segs, Min(10, Len(segs)))
                 ELSE first3
         IN  [value |-> dB(-45), invoked |-> FALSE]

\* _estimate_speech_level with one slip: the peak reading is ignored.
estimate_speech_level_MeanOnly(outcome, log) ==
    LET r == run_ffmpeg(outcome, log)
    IN  IF r.raises = "none" /\ r.stderr.mean_volume.match /\ r.stderr.mean_volume.valid
        THEN r.stderr.mean_volume.value
        ELSE dB(-18)

\* _estimate_speech_level.  float() of the mean is evaluated before the peak
\* is looked at; a ValueError of either is caught and gives -18 dB.
estimate_speech_level(outcome, log) ==
    LET r == run_ffmpeg(outcome, log)
    IN  IF r.raises # "none" THEN dB(-18)
        ELSE IF ~r.stderr.mean_volume.match THEN dB(-18)
        ELSE IF ~r.stderr.mean_volume.valid THEN dB(-18)
        ELSE IF ~r.stderr.max_volume.match THEN r.stderr.mean_volume.value
        ELSE IF ~r.stderr.max_volume.valid THEN dB(-18)
        ELSE (r.stderr.mean_volume.value + r.stderr.max_volume.value) \div 2

\* _detect_music with one slip: the silence ratio is not looked at, only the
\* 10 dB test is made.
detect_music_LevelOnly(noise, speech, ratio) ==
    LET level_diff == speech - noise
    IN  IF level_diff < dB(10) THEN TRUE ELSE FALSE

\* _detect_music.
detect_music(noise, speech, ratio) ==
    LET level_diff == speech - noise
    IN  IF level_diff < dB(15) /\ FracLess(ratio, [num |-> 5, den |-> 100]) THEN TRUE
        ELSE IF level_diff < dB(10) THEN TRUE
        ELSE FALSE

\* The state analyze_audio starts in.
InitAnalysis ==
    /\ probe_info \in ProbeInfos
    /\ ffmpeg_installed \in BOOLEAN
    /\ silence_ratio = Zero
    /\ noise_level_db = 0
    /\ speech_level_db = 0
    /\ has_music = FALSE
    /\ volumedetect = None
    /\ calls = <<>>
    /\ raised = "none"

Init ==
    /\ pc = "detect_silence"
    /\ silence_segments = <<>>
    /\ InitAnalysis
    /\ NoParse
    /\ NoBatch
    /\ NoTwoFiles
    /\ NoProcess
    /\ NoFilter

\* analyze_audio line 44: silence_segments = _detect_silence(path).
DetectSilence ==
    /\ pc = "detect_silence"
    /\ \E outcome \in EngineOutcomes(ffmpeg_installed) :
       \E log \in IF outcome = "ok" THEN DetectorLogs ELSE {<<>>} :
          LET d == detect_silence(outcome, log)
          IN  /\ calls' = Append(calls, [filter |-> "silencedetect", outcome |-> outcome])
              /\ IF d.raises # "none"
                 THEN /\ pc' = "raised"
                      /\ raised' = d.raises
                      /\ UNCHANGED silence_segments
                 ELSE /\ pc' = "silence_ratio"
                      /\ silence_segments' = d.segments
                      /\ UNCHANGED raised
    /\ UNCHANGED <<ffmpeg_installed, probe_info, silence_ratio, noise_level_db,
                   speech_level_db, has_music, volumedetect, parserVars, filterVars, batchVars, twoFileVars, processVars>>

\* analyze_audio lines 47-48.
CalculateSilenceRatio ==
    /\ pc = "silence_ratio"
    /\ silence_ratio' = calculate_silence_ratio(silence_segments, Duration(probe_info))
    /\ pc' = "noise_level"
    /\ UNCHANGED <<ffmpeg_installed, probe_info, silence_segments, noise_level_db,
                   speech_level_db, has_music, volumedetect, calls, raised,
                   parserVars, filterVars, batchVars, twoFileVars, processVars>>

\* analyze_audio line 53: noise_level_db = _estimate_noise_level(...).
EstimateNoiseLevel ==
    /\ pc = "noise_level"
    /\ \E outcome \in EngineOutcomes(ffmpeg_installed) :
       \E log \in IF outcome = "ok" THEN StatsLogs ELSE {<<>>} :
          LET n == estimate_noise_level(silence_segments, outcome, log)
          IN  /\ noise_level_db' = n.value
              /\ IF n.invoked
                 THEN /\ calls' = Append(calls, [filter |-> "volumedetect",
                                                 outcome |-> outcome])
                      /\ volumedetect' = IF outcome = "ok" THEN Some(log) ELSE None
                 ELSE UNCHANGED <<calls, volumedetect>>
    /\ pc' = "speech_level"
    /\ UNCHANGED <<ffmpeg_installed, probe_info, silence_segments, silence_ratio,
                   speech_level_db, has_music, raised, parserVars, filterVars, batchVars, twoFileVars, processVars>>

\* analyze_audio line 56: speech_level_db = _estimate_speech_level(...).
EstimateSpeechLevel ==
    /\ pc = "speech_level"
    /\ \E outcome \in EngineOutcomes(ffmpeg_installed) :
       \E log \in IF outcome = "ok" THEN StatsLogs ELSE {<<>>} :
          /\ speech_level_db' = estimate_speech_level(outcome, log)
          /\ calls' = Append(calls, [filter |-> "volumedetect", outcome |-> outcome])
          /\ volumedetect' = IF outcome = "ok" THEN Some(log) ELSE None
    /\ pc' = "detect_music"
    /\ UNCHANGED <<ffmpeg_installed, probe_info, silence_segments, silence_ratio,
                   noise_level_db, has_music, raised, parserVars, filterVars, batchVars, twoFileVars, processVars>>

\* analyze_audio lines 59-75: has_music, then the record is returned.
DetectMusic ==
    /\ pc = "detect_music"
    /\ has_music' = detect_music(noise_level_db, speech_level_db, silence_ratio)
    /\ pc' = "analyzed"
    /\ UNCHANGED <<ffmpeg_installed, probe_info, silence_segments, silence_ratio,
                   noise_level_db, speech_level_db, volumedetect, calls, raised,
                   parserVars, filterVars, batchVars, twoFileVars, processVars>>

Next ==
    \/ DetectSilence
    \/ CalculateSilenceRatio
    \/ EstimateNoiseLevel
    \/ EstimateSpeechLevel
    \/ DetectMusic

Spec == Init /\ [][Next]_vars

\* Segments the parser can emit, for the runs that start after detection:
\* 2.5 s, 9 s (overlapping the first), an empty one and a reversed one.
SampleSegments == {<<2, 7>>, <<2, 20>>, <<7, 7>>, <<20, 2>>}

SegmentLists == SeqsUpTo(SampleSegments, MaxSegments)

\* analyze_audio after _detect_silence has returned some segment list.
InitAnalyze ==
    /\ pc = "silence_ratio"
    /\ silence_segments \in SegmentLists
    /\ InitAnalysis
    /\ NoParse
    /\ NoBatch
    /\ NoTwoFiles
    /\ NoProcess
    /\ NoFilter

NextAnalyze == CalculateSilenceRatio \/ EstimateNoiseLevel

SpecAnalyze == InitAnalyze /\ [][NextAnalyze]_vars

\* Inputs of _detect_music taken on their own: noise levels of -60, -45 and
\* -33 dB, speech levels 8, 9.5, 10, 14.5, 15 and 27 dB above the noise, and
\* silence ratios of -1/2 (a reversed segment), 0, 0.04, 0.05, 1/2 and 1.
MusicNoiseLevels == {dB(-60), dB(-45), dB(-33)}
MusicLevelDiffs == {dB(8), dB(10) - 1, dB(10), dB(15) - 1, dB(15), dB(27)}
MusicRatios == {Frac(-1, 2), Zero, Frac(4, 100), Frac(5, 100), Frac(1, 2), One}

\* analyze_audio at line 59, with the three measurements made.
InitMusic ==
    /\ pc = "detect_music"
    /\ noise_level_db \in MusicNoiseLevels
    /\ speech_level_db \in {noise_level_db + d : d \in MusicLevelDiffs}
    /\ silence_ratio \in MusicRatios
    /\ ffmpeg_installed = TRUE
    /\ probe_info = [audio |-> None, format |-> None]
    /\ silence_segments = <<>>
    /\ has_music = FALSE
    /\ volumedetect = None
    /\ calls = <<>>
    /\ raised = "none"
    /\ NoParse
    /\ NoBatch
    /\ NoTwoFiles
    /\ NoProcess
    /\ NoFilter

NextMusic == DetectMusic

SpecMusic == InitMusic /\ [][NextMusic]_vars

----------------------------------------------------------------------------
(* The filter-chain builder.  A dict is a record whose fields are <<>> for *)
(* a missing key and <<v>> for a key with value v.  Frequencies are in Hz, *)
(* nr amounts in tenths, the limiter's limit in hundredths, gains in half  *)
(* dB.  The chain is the list of stages that ",".join turns into a string. *)

Absent == <<>>

\* dict.get(key, default).
Get(opt, default) == IF opt = Absent THEN default ELSE opt[1]

\* _adapt_noise_reduction with one slip: the scaled amount is returned without
\* the max(3, ...) and min(24, ...) clamps.
adapt_noise_reduction_NoClamp(base_nr, noise) ==
    IF noise < dB(-50) THEN base_nr * 7
    ELSE IF noise > dB(-35) THEN base_nr * 13
    ELSE base_nr * 10

\* _adapt_noise_reduction, base_nr in whole units, the result in tenths.
adapt_noise_reduction(base_nr, noise) ==
    IF noise < dB(-50) THEN Max(30, base_nr * 7)
    ELSE IF noise > dB(-35) THEN Min(240, base_nr * 13)
    ELSE base_nr * 10

\* f"entry({freq},{gain})" of line 201.
EntryText(freq, gain) == "entry(" \o ToString(freq) \o "," \o ToString(gain) \o ")"

\* ";".join(eq_parts) of line 203.
RECURSIVE Join(_)
Join(eq_parts) ==
    IF eq_parts = <<>> THEN ""
    ELSE IF Len(eq_parts) = 1 THEN Head(eq_parts)
    ELSE Head(eq_parts) \o ";" \o Join(Tail(eq_parts))

\* _build_equalizer_string with one slip: the tuples are joined last entry
\* first.
build_equalizer_string_Reversed(entries) ==
    Join([i \in 1..Len(entries) |->
             EntryText(entries[Len(entries) + 1 - i][1], entries[Len(entries) + 1 - i][2])])

\* _build_equalizer_string: the text of the entry(freq,gain) tuples, joined
\* by ";" in input order.
build_equalizer_string(entries) ==
    Join([i \in 1..Len(entries) |-> EntryText(entries[i][1], entries[i][2])])

Stage(name, params) == [name |-> name, params |-> params]

EmptyDict == [nr |-> Absent, nt |-> Absent, threshold |-> Absent, ratio |-> Absent,
              attack |-> Absent, release |-> Absent, entries |-> Absent,
              voice_enhancement |-> Absent, limit |-> Absent]

\* Lines 58-60 with one slip: the default cutoff is 100 Hz.
HighpassStage_DefaultHundred(p) == << Stage("highpass", [f |-> Get(p.highpass_freq, 100)]) >>

\* filters.py lines 58-60.
HighpassStage(p) == << Stage("highpass", [f |-> Get(p.highpass_freq, 80)]) >>

\* filters.py lines 66-68.
LowpassStage(p) == << Stage("lowpass", [f |-> Get(p.lowpass_freq, 8000)]) >>

\* filters.py lines 73-80.
AfftdnStage(a, p) ==
    LET noise_reduction == Get(p.noise_reduction, EmptyDict)
    IN  << Stage("afftdn",
                 [nr |-> adapt_noise_reduction(Get(noise_reduction.nr, 12),
                                               Get(a.noise_level_db, dB(-45))),
                  nt |-> Get(noise_reduction.nt, "w")]) >>

\* filters.py lines 85-93.
CompressorStage(p) ==
    LET compressor == Get(p.compressor, EmptyDict)
    IN  << Stage("acompressor",
                 [threshold |-> Get(compressor.threshold, -20),
                  ratio |-> Get(compressor.ratio, 3),
                  attack |-> Get(compressor.attack, 20),
                  release |-> Get(compressor.release, 200)]) >>

\* Lines 99-121 with one slip: the centre/harmonic boosts are appended outside
\* the "if eq_entries:" block, so they do not need the firequalizer.
EqualizerStages_BoostsUnguarded(p) ==
    LET equalizer == Get(p.equalizer, EmptyDict)
        eq_entries == Get(equalizer.entries, <<>>)
    IN  (IF eq_entries # <<>>
         THEN << Stage("firequalizer",
                       [gain_entry |-> build_equalizer_string(eq_entries)]) >>
              \o (IF Get(p.voice_enhancement, FALSE)
                  THEN << Stage("equalizer", [f |-> 3000, width |-> 10, g |-> 2]),
                          Stage("equalizer", [f |-> 1000, width |-> 10, g |-> 1]),
                          Stage("equalizer", [f |-> 4000, width |-> 5, g |-> 1]) >>
                  ELSE <<>>)
         ELSE <<>>)
        \o (IF Get(p.center_extraction, FALSE) /\ Get(p.harmonic_analysis, FALSE)
            THEN << Stage("equalizer", [f |-> 800, width |-> 10, g |-> 2]),
                    Stage("equalizer", [f |-> 2500, width |-> 10, g |-> 3]) >>
            ELSE <<>>)

\* filters.py lines 99-121: the firequalizer and the two groups of boosts,
\* all of them only when there are entries.
EqualizerStages(p) ==
    LET equalizer == Get(p.equalizer, EmptyDict)
        eq_entries == Get(equalizer.entries, <<>>)
    IN  IF eq_entries # <<>>
        THEN << Stage("firequalizer",
                      [gain_entry |-> build_equalizer_string(eq_entries)]) >>
             \o (IF Get(p.voice_enhancement, FALSE)
                 THEN << Stage("equalizer", [f |-> 3000, width |-> 10, g |-> 2]),
                         Stage("equalizer", [f |-> 1000, width |-> 10, g |-> 1]),
                         Stage("equalizer", [f |-> 4000, width |-> 5, g |-> 1]) >>
                 ELSE <<>>)
             \o (IF Get(p.center_extraction, FALSE) /\ Get(p.harmonic_analysis, FALSE)
                 THEN << Stage("equalizer", [f |-> 800, width |-> 10, g |-> 2]),
                         Stage("equalizer", [f |-> 2500, width |-> 10, g |-> 3]) >>
                 ELSE <<>>)
        ELSE <<>>

\* filters.py lines 125-127.
LimiterStage(p) ==
    LET limiter == Get(p.limiter, EmptyDict)
    IN  << Stage("alimiter", [limit |-> Get(limiter.limit, 95)]) >>

\* Lines 132-140 with one slip: the cascade is appended at -30 dB too.
CascadeStages_AtThirty(p) ==
    LET highpass_freq == Get(p.highpass_freq, 80)
        noise_gate == Get(p.noise_gate_threshold, -35)
    IN  IF noise_gate >= -30
        THEN << Stage("highpass", [f |-> Min(highpass_freq + 40, 290)]),
                Stage("highpass", [f |-> Min(highpass_freq + 80, 330)]),
                Stage("highpass", [f |-> Min(highpass_freq + 120, 370)]) >>
        ELSE <<>>

\* filters.py lines 132-140.
CascadeStages(p) ==
    LET highpass_freq == Get(p.highpass_freq, 80)
        noise_gate == Get(p.noise_gate_threshold, -35)
    IN  IF noise_gate > -30
        THEN << Stage("highpass", [f |-> Min(highpass_freq + 40, 290)]),
                Stage("highpass", [f |-> Min(highpass_freq + 80, 330)]),
                Stage("highpass", [f |-> Min(highpass_freq + 120, 370)]) >>
        ELSE <<>>

\* Lines 147-159 with one slip: a difference of exactly 20 dB gets the lower
\* gain.
VolumeStage_AtTwenty(a, p) ==
    LET noise_gate == Get(p.noise_gate_threshold, -35)
        level_diff == Get(a.speech_level_db, dB(-18)) - Get(a.noise_level_db, dB(-45))
        gain_db == IF level_diff >= dB(20) THEN dB(5) ELSE dB(8)
    IN  << Stage("volume",
                 [gain_db |-> IF noise_gate > -30 THEN gain_db + dB(3) ELSE gain_db]) >>

\* filters.py lines 147-159.
VolumeStage(a, p) ==
    LET noise_gate == Get(p.noise_gate_threshold, -35)
        level_diff == Get(a.speech_level_db, dB(-18)) - Get(a.noise_level_db, dB(-45))
        gain_db == IF level_diff > dB(20) THEN dB(5) ELSE dB(8)
    IN  << Stage("volume",
                 [gain_db |-> IF noise_gate > -30 THEN gain_db + dB(3) ELSE gain_db]) >>

\* build_audio_filter with one slip: the limiter is appended after the extra
\* high-pass cascade, as the last stage before the makeup gain.
build_audio_filter_LimiterAfterCascade(a, p) ==
    HighpassStage(p) \o LowpassStage(p) \o AfftdnStage(a, p) \o CompressorStage(p)
        \o EqualizerStages(p) \o CascadeStages(p) \o LimiterStage(p)
        \o VolumeStage(a, p)

\* build_audio_filter: the stages in the order the code appends them.
build_audio_filter(a, p) ==
    HighpassStage(p) \o LowpassStage(p) \o AfftdnStage(a, p) \o CompressorStage(p)
        \o EqualizerStages(p) \o LimiterStage(p) \o CascadeStages(p)
        \o VolumeStage(a, p)

Opt(S) == {Absent} \cup {Some(v) : v \in S}

\* The equalizer entries of the scenario: (100 Hz, 0 dB), (300 Hz, +4 dB).
SampleEntries == << <<100, 0>>, <<300, 4>> >>

EqualizerDicts ==
    { [EmptyDict EXCEPT !.entries = e, !.voice_enhancement = v] :
        <<e, v>> \in { <<Absent, Some(TRUE)>>,
                       <<Some(<<>>), Some(TRUE)>>,
                       <<Some(SampleEntries), Absent>>,
                       <<Some(SampleEntries), Some(TRUE)>>,
                       <<Some(SampleEntries), Some(FALSE)>> } }

\* Presets are records of the keys the builder reads and of description, a
\* key of the presets (main.py line 101) that the builder does not read.
Presets ==
    [highpass_freq : Opt({200, 400}),
     lowpass_freq : Opt({3400}),
     noise_reduction : Opt({[EmptyDict EXCEPT !.nr = Some(20)]}),
     compressor : Opt({[EmptyDict EXCEPT !.threshold = Some(-25), !.ratio = Some(4),
                                         !.release = Some(100)]}),
     equalizer : Opt(EqualizerDicts),
     voice_enhancement : Opt(BOOLEAN),
     center_extraction : Opt({TRUE}),
     harmonic_analysis : Opt({TRUE}),
     limiter : Opt({[EmptyDict EXCEPT !.limit = Some(90)]}),
     noise_gate_threshold : Opt({-30, -20}),
     description : Opt({"text"})]

\* Analysis records: noise -60, -30 dB or no key; speech -25 dB or no key.
Analyses ==
    [noise_level_db : Opt({dB(-60), dB(-30)}), speech_level_db : Opt({dB(-25)})]

InitFilter ==
    /\ pc = "build"
    /\ analysis \in Analyses
    /\ preset \in Presets
    /\ filter_chain = <<>>
    /\ Idle
    /\ NoParse
    /\ NoBatch
    /\ NoTwoFiles
    /\ NoProcess

\* The call with one slip in the builder: preset.setdefault('equalizer', {})
\* in place of preset.get('equalizer', {}), which writes the key into the
\* caller's preset.
BuildAudioFilter_SetDefault ==
    /\ pc = "build"
    /\ filter_chain' = build_audio_filter(analysis, preset)
    /\ preset' = [preset EXCEPT !.equalizer = Some(Get(@, EmptyDict))]
    /\ pc' = "built"
    /\ UNCHANGED <<analysis, parserVars, analysisVars, batchVars, twoFileVars, processVars>>

\* main.py line 141: filter_chain = build_audio_filter(analysis, preset).
BuildAudioFilter ==
    /\ pc = "build"
    /\ filter_chain' = build_audio_filter(analysis, preset)
    /\ pc' = "built"
    /\ UNCHANGED <<analysis, preset, parserVars, analysisVars, batchVars, twoFileVars, processVars>>

NextFilter == BuildAudioFilter

SpecFilter == InitFilter /\ [][NextFilter]_vars

\* The preset {}: no key at all.
NoKeys ==
    [highpass_freq |-> Absent, lowpass_freq |-> Absent, noise_reduction |-> Absent,
     compressor |-> Absent, equalizer |-> Absent, voice_enhancement |-> Absent,
     center_extraction |-> Absent, harmonic_analysis |-> Absent, limiter |-> Absent,
     noise_gate_threshold |-> Absent, description |-> Absent]

\* Presets that set the base noise-reduction amount only: 0 to MaxNr.
NrPresets ==
    { [NoKeys EXCEPT !.noise_reduction = Some([EmptyDict EXCEPT !.nr = Some(n)])] :
        n \in 0..MaxNr }

\* The (frequency, gain) pairs the entry lists are made of.
EntryPairs == { <<100, 0>>, <<300, 4>>, <<3000, -2>> }

\* Presets that set the equalizer entries only: every list of up to
\* MaxEntries pairs, repeated pairs and descending frequencies among them.
EntryPresets ==
    { [NoKeys EXCEPT !.equalizer = Some([EmptyDict EXCEPT !.entries = Some(e)])] :
        e \in SeqsUpTo(EntryPairs, MaxEntries) }

\* Analysis records with the noise level on both sides of -50 and -35 dB.
NoiseAnalyses ==
    [noise_level_db : Opt({dB(-60), dB(-50) - 1, dB(-50), dB(-35), dB(-35) + 1, dB(-10)}),
     speech_level_db : {Absent}]

\* build_audio_filter called with the adaptive parameters varied.
InitTune ==
    /\ pc = "build"
    /\ analysis \in NoiseAnalyses
    /\ preset \in NrPresets \cup EntryPresets
    /\ filter_chain = <<>>
    /\ Idle
    /\ NoParse
    /\ NoBatch
    /\ NoTwoFiles
    /\ NoProcess

NextTune == BuildAudioFilter

SpecTune == InitTune /\ [][NextTune]_vars

----------------------------------------------------------------------------
(* One file through steps 2 and 3 of main (src/main.py lines 136-141):     *)
(* analyze_audio, then build_audio_filter on the record it returned.       *)

\* The presets of the pipeline runs: no key, and the gate of the cascade.
PipelinePresets == {NoKeys, [NoKeys EXCEPT !.noise_gate_threshold = Some(-20)]}

InitPipeline ==
    /\ pc = "detect_silence"
    /\ silence_segments = <<>>
    /\ InitAnalysis
    /\ analysis = None
    /\ preset \in PipelinePresets
    /\ filter_chain = <<>>
    /\ NoParse
    /\ NoBatch
    /\ NoTwoFiles
    /\ NoProcess

\* The step with one slip: the builder is started while the speech level is
\* still to be measured.
BuildAfterAnalysis_Early ==
    /\ pc = "speech_level"
    /\ analysis' = [noise_level_db |-> Some(noise_level_db),
                    speech_level_db |-> Some(speech_level_db)]
    /\ filter_chain' = build_audio_filter(analysis', preset)
    /\ pc' = "built"
    /\ UNCHANGED <<preset, parserVars, analysisVars, batchVars, twoFileVars, processVars>>

\* main.py line 141, on the record analyze_audio returned at line 136 (the
\* builder reads two of its keys).
BuildAfterAnalysis ==
    /\ pc = "analyzed"
    /\ analysis' = [noise_level_db |-> Some(noise_level_db),
                    speech_level_db |-> Some(speech_level_db)]
    /\ filter_chain' = build_audio_filter(analysis', preset)
    /\ pc' = "built"
    /\ UNCHANGED <<preset, parserVars, analysisVars, batchVars, twoFileVars, processVars>>

NextPipeline == Next \/ BuildAfterAnalysis

SpecPipeline == InitPipeline /\ [][NextPipeline]_vars

----------------------------------------------------------------------------
(* Two files side by side.  The pipelines of two files (analyze_audio and  *)
(* build_audio_filter) are started together and their steps interleave;   *)
(* each call has its own locals, the preset is the one object both read.   *)
(* A media file is what the engine answers when run on it.                 *)

Files == {1, 2}

StartLine(t) == [kind |-> "silence_start", text |-> [valid |-> TRUE, value |-> t]]
EndLine(t) == [kind |-> "silence_end", text |-> [valid |-> TRUE, value |-> t]]

\* Detector answers: no silence, one segment, two segments, a timestamp
\* float() rejects, and a run that fails.
SampleDetections ==
    { [outcome |-> "ok", log |-> <<>>],
      [outcome |-> "ok", log |-> <<StartLine(2), EndLine(7)>>],
      [outcome |-> "ok", log |-> <<StartLine(2), EndLine(7), StartLine(7)>>],
      [outcome |-> "ok",
       log |-> <<[kind |-> "silence_start", text |-> [valid |-> FALSE, value |-> 0]]>>],
      [outcome |-> "nonzero", log |-> <<>>] }

\* Statistics answers: mean and peak, mean only, and a run that fails.
SampleStatistics ==
    { [outcome |-> "ok",
       log |-> [mean_volume |-> [match |-> TRUE, valid |-> TRUE, value |-> dB(-40)],
                max_volume |-> [match |-> TRUE, valid |-> TRUE, value |-> dB(-3)]]],
      [outcome |-> "ok",
       log |-> [mean_volume |-> [match |-> TRUE, valid |-> TRUE, value |-> dB(-20)],
                max_volume |-> [match |-> FALSE, valid |-> FALSE, value |-> 0]]],
      [outcome |-> "nonzero", log |-> <<>>] }

MediaFiles ==
    [probe_info : {[audio |-> None, format |-> Some(Sec(5))],
                   [audio |-> Some(Sec(60)), format |-> Some(Sec(5))]},
     silencedetect : SampleDetections,
     volumedetect : SampleStatistics]

\* The locals of a pipeline that has just been started.
Started ==
    [pc |-> "detect_silence", silence_segments |-> <<>>, silence_ratio |-> Zero,
     noise_level_db |-> 0, speech_level_db |-> 0, has_music |-> FALSE,
     filter_chain |-> <<>>, raised |-> "none"]

\* The next statement of the pipeline of one file: r are its locals, m is
\* its media file, p the preset (analysis.py lines 44-75, main.py line 141).
PipelineStep(r, m, p) ==
    CASE r.pc = "detect_silence" ->
           LET d == detect_silence(m.silencedetect.outcome, m.silencedetect.log)
           IN  IF d.raises # "none"
               THEN [r EXCEPT !.pc = "raised", !.raised = d.raises]
               ELSE [r EXCEPT !.pc = "silence_ratio", !.silence_segments = d.segments]
      [] r.pc = "silence_ratio" ->
           [r EXCEPT !.pc = "noise_level",
                     !.silence_ratio =
                         calculate_silence_ratio(r.silence_segments, Duration(m.probe_info))]
      [] r.pc = "noise_level" ->
           [r EXCEPT !.pc = "speech_level",
                     !.noise_level_db =
                         estimate_noise_level(r.silence_segments, m.volumedetect.outcome,
                                              m.volumedetect.log).value]
      [] r.pc = "speech_level" ->
           [r EXCEPT !.pc = "detect_music",
                     !.speech_level_db =
                         estimate_speech_level(m.volumedetect.outcome, m.volumedetect.log)]
      [] r.pc = "detect_music" ->
           [r EXCEPT !.pc = "analyzed",
                     !.has_music =
                         detect_music(r.noise_level_db, r.speech_level_db, r.silence_ratio)]
      [] r.pc = "analyzed" ->
           [r EXCEPT !.pc = "built",
                     !.filter_chain =
                         build_audio_filter([noise_level_db |-> Some(r.noise_level_db),
                                             speech_level_db |-> Some(r.speech_level_db)], p)]

InitTwoFiles ==
    /\ pc = "two_files"
    /\ media \in [Files -> MediaFiles]
    /\ runs = [f \in Files |-> Started]
    /\ preset \in PipelinePresets
    /\ analysis = None
    /\ filter_chain = <<>>
    /\ Idle
    /\ NoParse
    /\ NoBatch
    /\ NoProcess

\* The step with one slip: the segment list is kept in a module-level
\* variable that every call writes and reads, here the one of file 1.
RunFile_SharedSegments(f) ==
    /\ pc = "two_files"
    /\ runs[f].pc \notin {"built", "raised"}
    /\ LET shared == [runs[f] EXCEPT !.silence_segments = runs[1].silence_segments]
           next == PipelineStep(shared, media[f], preset)
       IN  runs' = [g \in Files |->
                       IF g = f THEN next
                       ELSE [runs[g] EXCEPT !.silence_segments = next.silence_segments]]
    /\ UNCHANGED <<pc, media, parserVars, analysisVars, filterVars, batchVars,
                   processVars>>

\* One statement of the pipeline of file f.
RunFile(f) ==
    /\ pc = "two_files"
    /\ runs[f].pc \notin {"built", "raised"}
    /\ runs' = [runs EXCEPT ![f] = PipelineStep(runs[f], media[f], preset)]
    /\ UNCHANGED <<pc, media, parserVars, analysisVars, filterVars, batchVars,
                   processVars>>

NextTwoFiles == \E f \in Files : RunFile(f)

SpecTwoFiles == InitTwoFiles /\ [][NextTwoFiles]_vars

----------------------------------------------------------------------------
(* The batch loop of main (src/main.py lines 106-194).  What the pipeline  *)
(* does with one file is the step that raised and the exception that left *)
(* the try block, or "none" for both when all four steps return.           *)

\* The exceptions each step of the try block can raise.
StepFailures ==
    [get_streams_info |-> {"FileNotFoundError", "ValueError", "NoAudioStreamError",
                           "InvalidMediaFileError", "FFmpegError"},
     analyze_audio |-> {"ValueError"},
     build_audio_filter |-> {"TypeError"},
     process_video |-> {"FileNotFoundError", "FFmpegError"}]

\* What the try block can end with.
Returned == [step |-> "none", exc |-> "none"]

FileOutcomes ==
    {Returned} \cup UNION {{[step |-> st, exc |-> e] : e \in StepFailures[st]} :
                              st \in DOMAIN StepFailures}

\* The except clauses of lines 159-178 with the catch-all of line 176 left
\* out: an exception of no listed class leaves the loop.
ExceptClause_NoCatchAll(exc) ==
    CASE exc = "FileNotFoundError" -> 1
      [] exc = "NoAudioStreamError" -> 2
      [] exc = "InvalidMediaFileError" -> 3
      [] exc = "ValueError" -> 4
      [] exc = "FFmpegError" -> 5
      [] OTHER -> 0

\* The except clause of lines 159-178 that handles an exception, first
\* match first: 6 is "except Exception".
ExceptClause(exc) ==
    CASE exc = "FileNotFoundError" -> 1
      [] exc = "NoAudioStreamError" -> 2
      [] exc = "InvalidMediaFileError" -> 3
      [] exc = "ValueError" -> 4
      [] exc = "FFmpegError" -> 5
      [] OTHER -> 6

\* main after the preset is loaded: the directory holds 0 to MaxFiles video
\* files.
InitBatch ==
    /\ pc = "scan"
    /\ video_files \in {[i \in 1..n |-> i] : n \in 0..MaxFiles}
    /\ file_no = 0
    /\ processed_count = 0
    /\ failed_count = 0
    /\ outcomes = <<>>
    /\ exit_status = None
    /\ Idle
    /\ NoParse
    /\ NoFilter
    /\ NoTwoFiles
    /\ NoProcess

\* Lines 106-121: no video file is exit 0, otherwise the loop starts with
\* both counters at 0.
Scan ==
    /\ pc = "scan"
    /\ IF video_files = <<>>
       THEN /\ pc' = "exited"
            /\ exit_status' = Some(0)
            /\ UNCHANGED file_no
       ELSE /\ pc' = "loop"
            /\ file_no' = 1
            /\ UNCHANGED exit_status
    /\ UNCHANGED <<video_files, processed_count, failed_count, outcomes,
                   parserVars, analysisVars, filterVars,
                   twoFileVars, processVars>>

\* Lines 123-178: one iteration, the try block and the except clause that
\* handles what it raised.  An exception no clause handles leaves main.
ProcessFile ==
    /\ pc = "loop"
    /\ file_no <= Len(video_files)
    /\ \E outcome \in FileOutcomes :
          /\ outcomes' = Append(outcomes, outcome)
          /\ IF outcome = Returned
             THEN /\ processed_count' = processed_count + 1
                  /\ file_no' = file_no + 1
                  /\ UNCHANGED <<pc, failed_count, exit_status>>
             ELSE IF ExceptClause(outcome.exc) # 0
             THEN /\ failed_count' = failed_count + 1
                  /\ file_no' = file_no + 1
                  /\ UNCHANGED <<pc, processed_count, exit_status>>
             ELSE /\ pc' = "crashed"
                  /\ exit_status' = Some(1)
                  /\ UNCHANGED <<file_no, processed_count, failed_count>>
    /\ UNCHANGED <<video_files, parserVars, analysisVars, filterVars,
                   twoFileVars, processVars>>

\* Lines 180-194: the loop is over, the exit status.
Exit ==
    /\ pc = "loop"
    /\ file_no > Len(video_files)
    /\ exit_status' = IF failed_count > 0 THEN Some(1) ELSE Some(0)
    /\ pc' = "exited"
    /\ UNCHANGED <<video_files, file_no, processed_count, failed_count, outcomes,
                   parserVars, analysisVars, filterVars,
                   twoFileVars, processVars>>

NextBatch == Scan \/ ProcessFile \/ Exit

SpecBatch == InitBatch /\ [][NextBatch]_vars

\* The loop runs on one thread and every step returns or raises (the engine
\* calls have timeouts), so a step that can be taken is taken.
FairSpecBatch == SpecBatch /\ WF_vars(NextBatch)

----------------------------------------------------------------------------
(* process_video (src/pipeline/process.py lines 32-112).  A file is its    *)
(* size and who wrote it: it was there before the call, or the engine      *)
(* wrote it during the call.                                               *)

File(size, writer) == [size |-> size, writer |-> writer]

\* What can be at the output path before the call: nothing, an empty file
\* or a file of up to MaxSize blocks.
FilesBefore == {None} \cup {Some(File(n, "before")) : n \in 0..MaxSize}

\* What the engine can leave at the output path.  A run that cannot start
\* leaves the path as it was; a failed run (-y given) leaves it as it was,
\* or a file it opened and wrote nothing or a part to; a run that exits
\* with status 0 leaves no file, an empty file or a file with content
\* (lines 91 and 95 check for the first two).
EngineLeaves(outcome, before) ==
    CASE outcome = "missing" -> {before}
      [] outcome = "oserror" -> {before}
      [] outcome = "nonzero" -> {before} \cup {Some(File(n, "engine")) : n \in 0..MaxSize}
      [] outcome = "ok" -> {None} \cup {Some(File(n, "engine")) : n \in 0..MaxSize}

\* process_video is called.
InitProcess ==
    /\ pc = "process_video"
    /\ input_exists \in BOOLEAN
    /\ output_file \in FilesBefore
    /\ unlink_raised = FALSE
    /\ ffmpeg_installed \in BOOLEAN
    /\ probe_info = [audio |-> None, format |-> None]
    /\ silence_segments = <<>>
    /\ silence_ratio = Zero
    /\ noise_level_db = 0
    /\ speech_level_db = 0
    /\ has_music = FALSE
    /\ volumedetect = None
    /\ calls = <<>>
    /\ raised = "none"
    /\ NoParse
    /\ NoFilter
    /\ NoBatch
    /\ NoTwoFiles

\* Lines 49-50: the input file must exist.
CheckInput ==
    /\ pc = "process_video"
    /\ IF input_exists
       THEN /\ pc' = "run_engine"
            /\ UNCHANGED raised
       ELSE /\ pc' = "raised"
            /\ raised' = "FileNotFoundError"
    /\ UNCHANGED <<ffmpeg_installed, probe_info, silence_segments, silence_ratio,
                   noise_level_db, speech_level_db, has_music, volumedetect, calls,
                   parserVars, filterVars, batchVars, twoFileVars, processVars>>

\* Line 88: run_ffmpeg(cmd).  FFmpegError goes to the handler of line 100.
RunEngine ==
    /\ pc = "run_engine"
    /\ \E outcome \in EngineOutcomes(ffmpeg_installed) :
          /\ calls' = Append(calls, [filter |-> "process", outcome |-> outcome])
          /\ output_file' \in EngineLeaves(outcome, output_file)
          /\ pc' = IF run_ffmpeg(outcome, <<>>).raises # "none"
                   THEN "cleanup" ELSE "check_output"
    /\ UNCHANGED <<ffmpeg_installed, probe_info, silence_segments, silence_ratio,
                   noise_level_db, speech_level_db, has_music, volumedetect, raised,
                   input_exists, unlink_raised,
                   parserVars, filterVars, batchVars, twoFileVars>>

\* Lines 90-98: the output must exist and must not be empty; FFmpegError
\* otherwise, which the handler of line 100 catches.
CheckOutput ==
    /\ pc = "check_output"
    /\ pc' = IF output_file = None THEN "cleanup"
             ELSE IF output_file[1].size = 0 THEN "cleanup"
             ELSE "returned"
    /\ UNCHANGED <<analysisVars, parserVars, filterVars, batchVars, twoFileVars,
                   processVars>>

\* The handler with one slip: the error is re-raised without the removal.
Cleanup_NoUnlink ==
    /\ pc = "cleanup"
    /\ pc' = "raised"
    /\ raised' = "FFmpegError"
    /\ UNCHANGED <<ffmpeg_installed, probe_info, silence_segments, silence_ratio,
                   noise_level_db, speech_level_db, has_music, volumedetect, calls,
                   parserVars, filterVars, batchVars, twoFileVars, processVars>>

\* Lines 100-109: the file at the output path, if any, is unlinked, an
\* exception of unlink() is passed over, and the FFmpegError is re-raised.
Cleanup ==
    /\ pc = "cleanup"
    /\ IF output_file # None
       THEN \E unlink_ok \in BOOLEAN :
               /\ output_file' = IF unlink_ok THEN None ELSE output_file
               /\ unlink_raised' = ~unlink_ok
       ELSE UNCHANGED <<output_file, unlink_raised>>
    /\ pc' = "raised"
    /\ raised' = "FFmpegError"
    /\ UNCHANGED <<ffmpeg_installed, probe_info, silence_segments, silence_ratio,
                   noise_level_db, speech_level_db, has_music, volumedetect, calls,
                   input_exists, parserVars, filterVars, batchVars, twoFileVars>>

NextProcess == CheckInput \/ RunEngine \/ CheckOutput \/ Cleanup

SpecProcess == InitProcess /\ [][NextProcess]_vars

----------------------------------------------------------------------------
(* Claims about the detector-log parser, checked under SpecParse.          *)

IsStart(k) == stderr[k].kind = "silence_start"
IsEnd(k) == stderr[k].kind = "silence_end"

\* The start line an end line at j is paired with: the nearest start line
\* before j with nothing but other lines in between.
PairedStarts(j) ==
    {i \in 1..(j - 1) :
        /\ IsStart(i)
        /\ \A k \in (i + 1)..(j - 1) : stderr[k].kind = "other"}

EmitsAt(j) == IsEnd(j) /\ PairedStarts(j) # {}

Indices(n) == [k \in 1..n |-> k]

\* The segments the pairing rule gives for the first n lines, in log order.
PairedSegments(n) ==
    LET js == SelectSeq(Indices(n), EmitsAt)
    IN  [m \in 1..Len(js) |->
            <<stderr[CHOOSE i \in PairedStarts(js[m]) : TRUE].text.value,
              stderr[js[m]].text.value>>]

\* Whether a start is pending after the first n lines, and which.
PendingAfter(n) ==
    LET cands == {i \in 1..n : IsStart(i)
                     /\ \A k \in (i + 1)..n : stderr[k].kind = "other"}
    IN  IF cands = {} THEN None
        ELSE Some(stderr[CHOOSE i \in cands : TRUE].text.value)

\* The log of the scenario: start 1.0, end 3.5, start 10.0.
TrailingStartLog ==
    << [kind |-> "silence_start", text |-> [valid |-> TRUE, value |-> 2]],
       [kind |-> "silence_end", text |-> [valid |-> TRUE, value |-> 7]],
       [kind |-> "silence_start", text |-> [valid |-> TRUE, value |-> 20]] >>

----------------------------------------------------------------------------
(* Claims about the analysis engine.                                       *)

Finished == pc \in {"analyzed", "raised"}

AllInvocationsFailed == \A i \in 1..Len(calls) : calls[i].outcome # "ok"

\* C3: any failure while running silence detection (the engine fails to run,
\* or the log cannot be turned into segments) gives the empty segment list
\* and never leaves analyze_audio.
C3_DetectionFailureSwallowed ==
    (pc # "detect_silence" /\ (calls[1].outcome # "ok" \/ raised # "none"))
        => (silence_segments = <<>> /\ raised = "none")

\* C4 as claimed: analyze_audio raises a dependency error exactly when the
\* engine is entirely unreachable, and returns a record otherwise.
C4_UnreachableEngineRaises ==
    Finished => ((~ffmpeg_installed) <=> (pc = "raised" /\ raised = "FFmpegError"))

\* C4 as amended: no engine failure ever leaves analyze_audio, and when every
\* invocation fails (the binary is missing) analyze_audio returns the record
\* built from the fallback values: no segments, ratio 0, noise -45 dB,
\* speech -18 dB, no music.
C4_EngineFailureMasked ==
    /\ raised # "FFmpegError"
    /\ (Finished /\ AllInvocationsFailed) =>
          /\ pc = "analyzed"
          /\ Len(calls) = 3
          /\ silence_segments = <<>>
          /\ silence_ratio = Zero
          /\ noise_level_db = dB(-45)
          /\ speech_level_db = dB(-18)
          /\ has_music = FALSE

\* The binary is missing, all three invocations failed, and analyze_audio
\* has returned.
C4_Witness ==
    /\ ~ffmpeg_installed
    /\ pc = "analyzed"
    /\ Len(calls) = 3
    /\ AllInvocationsFailed
    /\ noise_level_db = dB(-45)
    /\ speech_level_db = dB(-18)

\* The total duration as the claim words it: the audio stream's, or the
\* container's when the audio stream's is missing.
TotalDuration ==
    IF probe_info.audio # None THEN probe_info.audio ELSE probe_info.format

RECURSIVE SilenceUpTo(_)
SilenceUpTo(n) ==
    IF n = 0 THEN 0
    ELSE SilenceUpTo(n - 1) + silence_segments[n][2] - silence_segments[n][1]

TotalSilence == SilenceUpTo(Len(silence_segments))

RatioComputed == pc \in {"noise_level", "speech_level", "detect_music", "analyzed"}

C6_RatioInUnitInterval ==
    (RatioComputed /\ Duration(probe_info) # None)
        => (FracLe(Zero, silence_ratio) /\ FracLe(silence_ratio, One))

NoiseComputed == pc \in {"speech_level", "detect_music", "analyzed"}

\* C7: a noise estimate made on the no-silence path is never below -60 dB
\* and never above 0 dB, whatever mean_volume the log carries.
C7_FallbackNoiseInRange ==
    (NoiseComputed /\ silence_segments = <<>>)
        => (dB(-60) <= noise_level_db /\ noise_level_db <= 0)

IsVolumedetect(c) == c.filter = "volumedetect"

\* C8: with a non-empty segment list the noise estimate is exactly -45 dB,
\* whatever the segments and whichever sample is taken, and the statistics
\* filter is not run for it.
C8_FixedNoiseWithSegments ==
    (pc = "speech_level" /\ silence_segments # <<>>)
        => (noise_level_db = dB(-45) /\ SelectSeq(calls, IsVolumedetect) = <<>>)

\* Four segments, the first three of no length at all (so the sample is
\* widened past them), and the estimate made.
C8_Witness ==
    /\ pc = "speech_level"
    /\ Len(silence_segments) = 4
    /\ \A i \in 1..3 : silence_segments[i] = <<7, 7>>
    /\ silence_segments[4] = <<2, 20>>
    /\ noise_level_db = dB(-45)
    /\ calls = <<>>

MeanParsed(log) == log.mean_volume.match /\ log.mean_volume.valid
PeakParsed(log) == log.max_volume.match /\ log.max_volume.valid

\* C9: with no segments the statistics filter is run; a parsed mean level m
\* gives max(m - 30, -60); a failed run or a log without a mean level gives
\* -45 dB; nothing is raised.
C9_NoiseFromMeanLevel ==
    (pc = "speech_level" /\ silence_segments = <<>>) =>
        /\ calls # <<>>
        /\ calls[Len(calls)].filter = "volumedetect"
        /\ raised = "none"
        /\ IF calls[Len(calls)].outcome = "ok" /\ MeanParsed(volumedetect[1])
           THEN LET m == volumedetect[1].mean_volume.value
                IN  /\ noise_level_db >= m - dB(30)
                    /\ noise_level_db >= dB(-60)
                    /\ noise_level_db \in {m - dB(30), dB(-60)}
           ELSE noise_level_db = dB(-45)

\* A mean level of -40 dB was parsed and the estimate is held at -60 dB.
C9_Witness ==
    /\ pc = "speech_level"
    /\ silence_segments = <<>>
    /\ volumedetect # None
    /\ MeanParsed(volumedetect[1])
    /\ volumedetect[1].mean_volume.value = dB(-40)
    /\ noise_level_db = dB(-60)

\* C10: the speech estimate is (mean + peak) / 2 when the log carries both
\* levels, the mean when it carries only the mean, and -18 dB when the
\* statistics run fails; nothing is raised.
C10_SpeechLevel ==
    pc = "detect_music" =>
        /\ raised = "none"
        /\ calls[Len(calls)].filter = "volumedetect"
        /\ calls[Len(calls)].outcome # "ok" => speech_level_db = dB(-18)
        /\ calls[Len(calls)].outcome = "ok" =>
              LET log == volumedetect[1]
              IN  /\ (MeanParsed(log) /\ PeakParsed(log)) =>
                        2 * speech_level_db
                            = log.mean_volume.value + log.max_volume.value
                  /\ (MeanParsed(log) /\ ~log.max_volume.match) =>
                        speech_level_db = log.mean_volume.value

\* Mean -40 dB and peak -3 dB were parsed: the estimate is -21.5 dB.
C10_Witness ==
    /\ pc = "detect_music"
    /\ volumedetect # None
    /\ MeanParsed(volumedetect[1]) /\ PeakParsed(volumedetect[1])
    /\ volumedetect[1].mean_volume.value = dB(-40)
    /\ volumedetect[1].max_volume.value = dB(-3)
    /\ speech_level_db = -43

----------------------------------------------------------------------------
(* Claims about the filter-chain builder, checked under SpecFilter.        *)

\* The place of a stage in the table of stages: 1 high-pass, 2 low-pass,
\* 3 afftdn, 4 compressor, 5 firequalizer, 6 voice-enhancement boosts,
\* 7 centre/harmonic boosts, 8 limiter, 9 extra high-pass cascade, 10 volume.
StageRank(i) ==
    LET st == filter_chain[i]
    IN  CASE st.name = "highpass" -> IF i = 1 THEN 1 ELSE 9
          [] st.name = "lowpass" -> 2
          [] st.name = "afftdn" -> 3
          [] st.name = "acompressor" -> 4
          [] st.name = "firequalizer" -> 5
          [] st.name = "equalizer" -> IF st.params.f \in {3000, 1000, 4000} THEN 6 ELSE 7
          [] st.name = "alimiter" -> 8
          [] st.name = "volume" -> 10
          [] OTHER -> 0

StagesOfRank(r) == {i \in 1..Len(filter_chain) : StageRank(i) = r}

\* C1: whatever the analysis and the preset, the stages come in the order
\* high-pass, low-pass, afftdn, compressor, firequalizer, voice-enhancement
\* boosts, centre/harmonic boosts, limiter, extra high-pass cascade, volume;
\* the mandatory ones occur once each and leaving optional ones out never
\* changes the order of the rest.
C1_StageOrder ==
    pc = "built" =>
        /\ \A i, j \in 1..Len(filter_chain) : i < j => StageRank(i) <= StageRank(j)
        /\ \A r \in {1, 2, 3, 4, 8, 10} : Cardinality(StagesOfRank(r)) = 1
        /\ Cardinality(StagesOfRank(5)) <= 1
        /\ Cardinality(StagesOfRank(6)) \in {0, 3}
        /\ Cardinality(StagesOfRank(7)) \in {0, 2}
        /\ Cardinality(StagesOfRank(9)) \in {0, 3}
        /\ StagesOfRank(0) = {}

\* A chain with every optional stage in it: fifteen stages.
C1_Witness ==
    /\ pc = "built"
    /\ Len(filter_chain) = 15
    /\ \A r \in 1..10 : StagesOfRank(r) # {}

----------------------------------------------------------------------------
(* Claims about _detect_music, checked under SpecMusic.                    *)

LevelDiff == speech_level_db - noise_level_db

RatioBelowFivePercent == silence_ratio.num * 100 < 5 * silence_ratio.den

\* C11: with levelDiff = speech - noise, _detect_music returns true exactly
\* when levelDiff < 10 dB, or levelDiff < 15 dB and the silence ratio is
\* below 0.05, and false otherwise; a levelDiff below 10 dB (8 dB, say)
\* gives true whatever the silence ratio.
C11_MusicRule ==
    pc = "analyzed" =>
        /\ has_music = (LevelDiff < dB(10) \/ (LevelDiff < dB(15) /\ RatioBelowFivePercent))
        /\ LevelDiff = dB(8) => has_music

\* A difference between 10 and 15 dB decided by the silence ratio: music at
\* a ratio of 0.04.
C11_Witness ==
    /\ pc = "analyzed"
    /\ LevelDiff = dB(15) - 1
    /\ silence_ratio = Frac(4, 100)
    /\ has_music

----------------------------------------------------------------------------
(* Claims about the adaptive parameters, checked under SpecTune.           *)

\* The base amount the preset gives, the noise level the analysis gives, and
\* the amount of the afftdn stage of the chain (in tenths).
BaseNr == Get(Get(preset.noise_reduction, EmptyDict).nr, 12)
NoiseLevel == Get(analysis.noise_level_db, dB(-45))
EmittedNr == filter_chain[3].params.nr

\* C12 as stated: for every base amount nr, a noise level below -50 dB gives
\* an amount strictly less than nr and not less than 3, one above -35 dB an
\* amount strictly greater than nr and not more than 24, and one in
\* [-50, -35] dB the amount nr itself.
C12_StrictlyMonotonic ==
    pc = "built" =>
        /\ NoiseLevel < dB(-50) => EmittedNr < 10 * BaseNr /\ EmittedNr >= 30
        /\ NoiseLevel > dB(-35) => EmittedNr > 10 * BaseNr /\ EmittedNr <= 240
        /\ (NoiseLevel >= dB(-50) /\ NoiseLevel <= dB(-35)) => EmittedNr = 10 * BaseNr

\* C12, amended: below -50 dB the amount is max(3, 0.7 nr), which is never
\* less than 3 and is strictly less than nr exactly when nr > 3; above
\* -35 dB it is min(24, 1.3 nr), which is never more than 24 and is strictly
\* greater than nr exactly when 0 < nr < 24; in [-50, -35] dB it is nr.
C12_ClampedScaling ==
    pc = "built" =>
        /\ NoiseLevel < dB(-50) =>
              /\ EmittedNr = Max(30, 7 * BaseNr)
              /\ EmittedNr >= 30
              /\ (EmittedNr < 10 * BaseNr) = (BaseNr > 3)
        /\ NoiseLevel > dB(-35) =>
              /\ EmittedNr = Min(240, 13 * BaseNr)
              /\ EmittedNr <= 240
              /\ (EmittedNr > 10 * BaseNr) = (BaseNr > 0 /\ BaseNr < 24)
        /\ (NoiseLevel >= dB(-50) /\ NoiseLevel <= dB(-35)) => EmittedNr = 10 * BaseNr

\* A base amount of 2 on a very clean recording: the amount goes up to 3.
C12_Witness ==
    /\ pc = "built"
    /\ BaseNr = 2
    /\ NoiseLevel = dB(-60)
    /\ EmittedNr = 30

----------------------------------------------------------------------------
(* Claims about the optional stages, checked under SpecFilter.             *)

\* The places of the chain where the stages bs (pairs of frequency and gain)
\* stand one after the other as equalizer stages.
BoostsAt(bs) ==
    {i \in 0..(Len(filter_chain) - Len(bs)) :
        \A k \in 1..Len(bs) :
            /\ filter_chain[i + k].name = "equalizer"
            /\ filter_chain[i + k].params.f = bs[k][1]
            /\ filter_chain[i + k].params.g = bs[k][2]}

FirequalizerEmitted == \E i \in 1..Len(filter_chain) : filter_chain[i].name = "firequalizer"

VoiceBoostsEmitted == BoostsAt(<< <<3000, 2>>, <<1000, 1>>, <<4000, 1>> >>) # {}

CentreBoostsEmitted == BoostsAt(<< <<800, 2>>, <<2500, 3>> >>) # {}

NoBoostOf(freqs) ==
    \A i \in 1..Len(filter_chain) :
        filter_chain[i].name = "equalizer" => filter_chain[i].params.f \notin freqs

\* What the preset holds, after the defaults of dict.get.
EqualizerDict == Get(preset.equalizer, EmptyDict)
EqEntries == Get(EqualizerDict.entries, <<>>)
NoiseGate == Get(preset.noise_gate_threshold, -35)
HighpassFreq == Get(preset.highpass_freq, 80)

\* C13: the three voice-enhancement boosts (3000 Hz +2, 1000 Hz +1,
\* 4000 Hz +1) are in the chain exactly when the firequalizer stage is in it
\* and the voice_enhancement flag held under the preset's equalizer key is
\* true.
C13_NestedFlagDecides ==
    pc = "built" =>
        (VoiceBoostsEmitted
            <=> (FirequalizerEmitted /\ Get(EqualizerDict.voice_enhancement, FALSE)))

\* C14: the firequalizer stage is in the chain exactly when equalizer.entries
\* is non-empty; the two centre/harmonic boosts (800 Hz +2, 2500 Hz +3) are
\* in it exactly when the firequalizer is and center_extraction and
\* harmonic_analysis are both true; with no entries there is no boost of
\* either group, whatever the flags.
C14_EqualizerGuards ==
    pc = "built" =>
        /\ FirequalizerEmitted <=> (EqEntries # <<>>)
        /\ CentreBoostsEmitted
              <=> /\ FirequalizerEmitted
                  /\ Get(preset.center_extraction, FALSE)
                  /\ Get(preset.harmonic_analysis, FALSE)
        /\ ~CentreBoostsEmitted => NoBoostOf({800, 2500})
        /\ EqEntries = <<>> => NoBoostOf({3000, 1000, 4000, 800, 2500})

\* Entries and both flags: the firequalizer and the 800 and 2500 Hz boosts.
C14_Witness ==
    /\ pc = "built"
    /\ EqEntries # <<>>
    /\ preset.center_extraction = Some(TRUE)
    /\ preset.harmonic_analysis = Some(TRUE)
    /\ FirequalizerEmitted
    /\ CentreBoostsEmitted

\* The high-pass stages after the first stage of the chain.
CascadePlaces == {i \in 2..Len(filter_chain) : filter_chain[i].name = "highpass"}

LimiterPlace == CHOOSE i \in 1..Len(filter_chain) : filter_chain[i].name = "alimiter"

\* C15: the extra high-pass cascade is in the chain exactly when
\* noise_gate_threshold is above -30 (not at -30, not when the key is
\* absent); it is then exactly three stages, with the frequencies
\* min(hp + 40, 290), min(hp + 80, 330), min(hp + 120, 370) in this order,
\* right after the limiter.
C15_Cascade ==
    pc = "built" =>
        /\ (CascadePlaces # {})
              <=> (preset.noise_gate_threshold # Absent
                     /\ preset.noise_gate_threshold[1] > -30)
        /\ CascadePlaces # {} =>
              /\ CascadePlaces = {LimiterPlace + 1, LimiterPlace + 2, LimiterPlace + 3}
              /\ filter_chain[LimiterPlace + 1].params.f = Min(HighpassFreq + 40, 290)
              /\ filter_chain[LimiterPlace + 2].params.f = Min(HighpassFreq + 80, 330)
              /\ filter_chain[LimiterPlace + 3].params.f = Min(HighpassFreq + 120, 370)

\* A gate of -20 with a 200 Hz high-pass: 240, 280 and 320 Hz after the
\* limiter.
C15_Witness ==
    /\ pc = "built"
    /\ preset.noise_gate_threshold = Some(-20)
    /\ preset.highpass_freq = Some(200)
    /\ filter_chain[LimiterPlace + 1] = Stage("highpass", [f |-> 240])
    /\ filter_chain[LimiterPlace + 2] = Stage("highpass", [f |-> 280])
    /\ filter_chain[LimiterPlace + 3] = Stage("highpass", [f |-> 320])

SpeechMinusNoise ==
    Get(analysis.speech_level_db, dB(-18)) - Get(analysis.noise_level_db, dB(-45))

LastStage == filter_chain[Len(filter_chain)]

\* C16: the makeup gain is always the last stage; it is 5 dB when speech
\* minus noise is above 20 dB and 8 dB otherwise (at exactly 20 dB too), plus
\* 3 dB exactly when noise_gate_threshold is above -30, so it is one of 5, 8
\* and 11 dB; noise -45 and speech -18 without the gate bonus give 5 dB.
C16_MakeupGain ==
    pc = "built" =>
        /\ LastStage.name = "volume"
        /\ \A i \in 1..(Len(filter_chain) - 1) : filter_chain[i].name # "volume"
        /\ LastStage.params.gain_db =
              (IF SpeechMinusNoise > dB(20) THEN dB(5) ELSE dB(8))
                + (IF NoiseGate > -30 THEN dB(3) ELSE 0)
        /\ LastStage.params.gain_db \in {dB(5), dB(8), dB(11)}
        /\ (SpeechMinusNoise = dB(-18) - dB(-45) /\ NoiseGate <= -30)
              => LastStage.params.gain_db = dB(5)

\* A difference of exactly 20 dB without the gate bonus: 8 dB.
C16_Witness ==
    /\ pc = "built"
    /\ SpeechMinusNoise = dB(20)
    /\ NoiseGate <= -30
    /\ LastStage = Stage("volume", [gain_db |-> dB(8)])

NoiseReductionDict == Get(preset.noise_reduction, EmptyDict)
CompressorDict == Get(preset.compressor, EmptyDict)
LimiterDict == Get(preset.limiter, EmptyDict)

\* The mandatory stages by name.
StageNamed(name) ==
    filter_chain[CHOOSE i \in 1..Len(filter_chain) : filter_chain[i].name = name]

\* C18: every absent preset key takes its default: highpass 80, lowpass
\* 8000, nr 12 (then adapted to the noise level), nt w, threshold -20,
\* ratio 3, attack 20, release 200, limit 0.95, no equalizer stage, no
\* cascade; and a key the builder does not read (description) never changes
\* the chain.
C18_Defaults ==
    pc = "built" =>
        /\ preset.highpass_freq = Absent => filter_chain[1].params.f = 80
        /\ preset.lowpass_freq = Absent => filter_chain[2].params.f = 8000
        /\ NoiseReductionDict.nr = Absent =>
              StageNamed("afftdn").params.nr =
                  (IF NoiseLevel < dB(-50) THEN 84
                   ELSE IF NoiseLevel > dB(-35) THEN 156 ELSE 120)
        /\ NoiseReductionDict.nt = Absent => StageNamed("afftdn").params.nt = "w"
        /\ CompressorDict.threshold = Absent => StageNamed("acompressor").params.threshold = -20
        /\ CompressorDict.ratio = Absent => StageNamed("acompressor").params.ratio = 3
        /\ CompressorDict.attack = Absent => StageNamed("acompressor").params.attack = 20
        /\ CompressorDict.release = Absent => StageNamed("acompressor").params.release = 200
        /\ LimiterDict.limit = Absent => StageNamed("alimiter").params.limit = 95
        /\ (preset.equalizer = Absent \/ EqualizerDict.entries = Absent) =>
              \A i \in 1..Len(filter_chain) :
                  filter_chain[i].name \notin {"firequalizer", "equalizer"}
        /\ preset.noise_gate_threshold = Absent => CascadePlaces = {}
        /\ filter_chain = build_audio_filter(analysis, [preset EXCEPT !.description = Absent])

\* A preset with no key but description, and an analysis with no key: the
\* six mandatory stages with the defaults.
C18_Witness ==
    /\ pc = "built"
    /\ preset = [NoKeys EXCEPT !.description = Some("text")]
    /\ analysis = [noise_level_db |-> Absent, speech_level_db |-> Absent]
    /\ filter_chain = << Stage("highpass", [f |-> 80]),
                         Stage("lowpass", [f |-> 8000]),
                         Stage("afftdn", [nr |-> 120, nt |-> "w"]),
                         Stage("acompressor", [threshold |-> -20, ratio |-> 3,
                                               attack |-> 20, release |-> 200]),
                         Stage("alimiter", [limit |-> 95]),
                         Stage("volume", [gain_db |-> dB(5)]) >>

\* C19: build_audio_filter is a pure function of (analysis, preset): the call
\* leaves the preset and the analysis as they were, makes no engine
\* invocation, and the chain it returns is the one a call with the same
\* (unchanged) inputs returns.
C19_Pure ==
    [][pc = "build" =>
          /\ preset' = preset
          /\ analysis' = analysis
          /\ calls' = calls
          /\ filter_chain' = build_audio_filter(analysis', preset')]_vars

\* The builder has returned for a preset without the equalizer key, which
\* is still without it, and no engine invocation was made.
C19_Witness ==
    /\ pc = "built"
    /\ preset.equalizer = Absent
    /\ preset.noise_gate_threshold = Some(-20)
    /\ Len(filter_chain) = 9
    /\ calls = <<>>

----------------------------------------------------------------------------
(* The equalizer string, checked under SpecTune.                           *)

\* The gain_entry text of the firequalizer stage, the fifth of the chain.
EmittedGainEntry == filter_chain[5].params.gain_entry

\* The text of the first n entries of the preset, built from the last one
\* backwards.
RECURSIVE TuplesOfFirst(_)
TuplesOfFirst(n) ==
    IF n = 1 THEN EntryText(EqEntries[1][1], EqEntries[1][2])
    ELSE TuplesOfFirst(n - 1) \o ";" \o EntryText(EqEntries[n][1], EqEntries[n][2])

\* C17: _build_equalizer_string turns the entries into entry(freq,gain)
\* tuples joined by ";" in input order: as many tuples as entries, the i-th
\* tuple made of the i-th entry, repeated entries kept; (100,0), (300,4)
\* give entry(100,0);entry(300,4).
C17_EqualizerString ==
    (pc = "built" /\ EqEntries # <<>>) =>
        /\ filter_chain[5].name = "firequalizer"
        /\ EmittedGainEntry = TuplesOfFirst(Len(EqEntries))
        /\ EqEntries = << <<100, 0>>, <<300, 4>> >>
              => EmittedGainEntry = "entry(100,0);entry(300,4)"
        /\ EqEntries = << <<3000, -2>>, <<100, 0>>, <<100, 0>> >>
              => EmittedGainEntry = "entry(3000,-2);entry(100,0);entry(100,0)"

\* A list with a repeated entry after a higher frequency: three tuples, in
\* input order.
C17_Witness ==
    /\ pc = "built"
    /\ EqEntries = << <<3000, -2>>, <<100, 0>>, <<100, 0>> >>
    /\ EmittedGainEntry = "entry(3000,-2);entry(100,0);entry(100,0)"

----------------------------------------------------------------------------
(* The batch loop, checked under FairSpecBatch.                            *)

\* The files handled so far that failed.
FailedFiles == {i \in 1..Len(outcomes) : outcomes[i] # Returned}

\* Every file handled so far is counted once, as processed or as failed.
CountsAddUp ==
    /\ pc # "crashed"
    /\ failed_count = Cardinality(FailedFiles)
    /\ processed_count = Len(outcomes) - Cardinality(FailedFiles)
    /\ pc = "loop" => Len(outcomes) = file_no - 1
    /\ pc = "exited" =>
          /\ Len(outcomes) = Len(video_files)
          /\ processed_count + failed_count = Len(video_files)
          /\ exit_status = Some(IF FailedFiles # {} THEN 1 ELSE 0)

----------------------------------------------------------------------------
(* More claims about the detector-log parser, checked under SpecParse.     *)

\* C23: every segment (start, end) the parser emits has end > start,
\* whatever start and end events and timestamps the log holds.
C23_EndAfterStart ==
    \A m \in 1..Len(segments) : segments[m][2] > segments[m][1]

\* The start and end events among the lines the loop has been through.
StartsSeen == {k \in 1..(line_no - 1) : IsStart(k)}
EndsSeen == {k \in 1..(line_no - 1) : IsEnd(k)}

\* Each segment is made of one start line and one later end line, no line
\* is used twice, and the segments stand in the order of their end lines.
SegmentSources ==
    pc \in {"parsing", "parsed"} =>
        /\ Len(sources) = Len(segments)
        /\ \A m \in 1..Len(sources) :
              /\ sources[m][1] \in StartsSeen
              /\ sources[m][2] \in EndsSeen
              /\ sources[m][1] < sources[m][2]
              /\ segments[m] = <<stderr[sources[m][1]].text.value,
                                 stderr[sources[m][2]].text.value>>
        /\ \A m, k \in 1..Len(sources) :
              m < k => /\ sources[m][1] # sources[k][1]
                       /\ sources[m][2] < sources[k][2]
        /\ Len(segments) <= Min(Cardinality(StartsSeen), Cardinality(EndsSeen))

\* An end event met with no start pending: nothing is appended, nothing is
\* pending afterwards and the loop goes on.
OrphanEndIgnored ==
    (pc = "parsing" /\ line_no <= Len(stderr) /\ IsEnd(line_no) /\ current_start = None)
        => /\ segments' = segments
           /\ current_start' = current_start
           /\ pc' = "parsing"

----------------------------------------------------------------------------
(* More claims about the chain, checked under SpecFilter.                  *)

\* C24: in every chain build_audio_filter returns the peak limiter
\* (alimiter) is the final stage: no stage that changes level or frequency
\* content follows it.
C24_LimiterFinal ==
    pc = "built" => LastStage.name = "alimiter"

\* C27: whenever the extra high-pass cascade is in the chain, its three
\* cutoff frequencies are non-decreasing and each is at least the cutoff of
\* the first stage, for every highpass_freq a preset can carry.
C27_CascadeNotBelowHighpass ==
    (pc = "built" /\ CascadePlaces # {}) =>
        /\ \A i, j \in CascadePlaces :
              i < j => filter_chain[i].params.f <= filter_chain[j].params.f
        /\ \A i \in CascadePlaces : filter_chain[i].params.f >= filter_chain[1].params.f

----------------------------------------------------------------------------
(* Claims about process_video, checked under SpecProcess.                  *)

\* A normal return leaves an output file that is not empty.
ReturnsWithOutput ==
    pc = "returned" => (output_file # None /\ output_file[1].size > 0)

RaisedEngineError == pc = "raised" /\ raised = "FFmpegError"

\* C25 as stated: process_video returns normally with an existing non-empty
\* output file, or raises; after FFmpegError from the engine run or from
\* the output checks no file is left at the output path (a partial file, an
\* empty file or a file that was there before the call is removed).
C25_NoFileLeft ==
    /\ ReturnsWithOutput
    /\ RaisedEngineError => output_file = None

\* C25, amended: process_video returns normally with an existing non-empty
\* output file, or raises; on FFmpegError the file at the output path is
\* unlinked and the error re-raised, but an exception of the unlink is
\* passed over: the path is empty afterwards exactly when the unlink did
\* not raise, and the file stays as it was when it did.
C25_BestEffortCleanup ==
    /\ ReturnsWithOutput
    /\ RaisedEngineError => (output_file = None <=> ~unlink_raised)
    /\ pc \notin {"cleanup", "raised"} => ~unlink_raised

\* The engine failed without touching a file that was at the output path,
\* the unlink raised too: FFmpegError, and the old file is still there.
C25_Witness ==
    /\ RaisedEngineError
    /\ unlink_raised
    /\ output_file = Some(File(2, "before"))

----------------------------------------------------------------------------
(* The order of the steps of one file, checked under SpecPipeline.         *)

\* The place of a position in the run of one file.
StepRank(p) ==
    CASE p = "detect_silence" -> 1
      [] p = "silence_ratio" -> 2
      [] p = "noise_level" -> 3
      [] p = "speech_level" -> 4
      [] p = "detect_music" -> 5
      [] p = "analyzed" -> 6
      [] p = "built" -> 7
      [] OTHER -> 0

\* What one step may do: go to the next position (or leave analyze_audio
\* with the exception of the detector step), start an engine invocation
\* only when the one before has its outcome, and write each result at its
\* own position.
OneStepAtATime ==
    /\ pc' # pc =>
          \/ StepRank(pc') = StepRank(pc) + 1
          \/ pc = "detect_silence" /\ pc' = "raised"
    /\ calls' # calls =>
          /\ Len(calls') = Len(calls) + 1
          /\ SubSeq(calls', 1, Len(calls)) = calls
          /\ calls'[Len(calls')].outcome \in {"ok", "nonzero", "oserror", "missing"}
          /\ (calls'[Len(calls')].filter = "silencedetect")
                <=> (calls = <<>> /\ pc = "detect_silence")
          /\ calls'[Len(calls')].filter = "volumedetect"
                => pc \in {"noise_level", "speech_level"}
    /\ noise_level_db' # noise_level_db => pc = "noise_level"
    /\ speech_level_db' # speech_level_db => pc = "speech_level"
    /\ pc = "detect_music" =>
          /\ has_music' = detect_music(noise_level_db, speech_level_db, silence_ratio)
          /\ UNCHANGED <<noise_level_db, speech_level_db, silence_ratio, calls>>
    /\ has_music' # has_music => pc = "detect_music"
    /\ filter_chain' # filter_chain =>
          /\ pc = "analyzed"
          /\ raised = "none"
          /\ UNCHANGED <<noise_level_db, speech_level_db, silence_ratio, has_music,
                         calls>>

\* C21: within one analyze_audio run the engine invocations are strictly
\* sequential and ordered: the silence detector has completed or failed
\* before any volume-statistics invocation starts, the noise estimate is
\* made before the speech estimate, the music flag is computed last from
\* those three results, and build_audio_filter runs only after the
\* analysis has returned.
C21_Sequential == [][OneStepAtATime]_vars

\* A file whose three invocations all ran, in order, and whose chain was
\* built from the returned levels.
C21_Witness ==
    /\ pc = "built"
    /\ Len(calls) = 3
    /\ calls[1].filter = "silencedetect"
    /\ calls[2].filter = "volumedetect"
    /\ calls[3].filter = "volumedetect"
    /\ analysis = [noise_level_db |-> Some(noise_level_db),
                   speech_level_db |-> Some(speech_level_db)]
    /\ filter_chain = build_audio_filter(analysis, preset)

----------------------------------------------------------------------------
(* Two files side by side, checked under SpecTwoFiles.                     *)

\* The pipeline of one file run alone, from start to end.
RECURSIVE RunAlone(_, _, _)
RunAlone(r, m, p) ==
    IF r.pc \in {"built", "raised"} THEN r
    ELSE RunAlone(PipelineStep(r, m, p), m, p)

Ended(f) == runs[f].pc \in {"built", "raised"}

\* C22: the core holds no cross-file state: however the steps of the
\* pipelines of two files interleave, the analysis and the chain of each
\* file are what the pipeline of that file gives when run alone.
C22_NoCrossFileState ==
    \A f \in Files : Ended(f) => runs[f] = RunAlone(Started, media[f], preset)

\* Both pipelines have ended on different files: file 1 with a silence
\* segment and the fixed noise level, file 2 without one and with the noise
\* level of its own statistics.
C22_Witness ==
    /\ runs[1].pc = "built"
    /\ runs[2].pc = "built"
    /\ runs[1].silence_segments = << <<2, 7>> >>
    /\ runs[2].silence_segments = <<>>
    /\ runs[1].noise_level_db = dB(-45)
    /\ runs[2].noise_level_db = dB(-60)
    /\ runs[1].filter_chain # runs[2].filter_chain

====
